---- MODULE Spec2Model ----
(***************************************************************************)
(* Model of the LiveStream controller of lib/rpi-cam.js: the lifecycle    *)
(* operations start/pause/resume/stop with their camera completion        *)
(* callbacks, the route handler registered by #listen, the per-connection *)
(* frame listeners and the shared lastFrame.                              *)
(*                                                                         *)
(* JavaScript scheduling: a call of a lifecycle operation runs its        *)
(* synchronous part in one step.  The continuation behind                 *)
(* `await this.#initialize()` is a microtask; camera callbacks, the       *)
(* server's listen callback, client connections, client disconnects and   *)
(* frame events are macrotasks, which run only when no microtask is       *)
(* pending.  The camera module invokes each completion callback exactly   *)
(* once per accepted call, in any order.                                   *)
(***************************************************************************)
EXTENDS Integers, Sequences, FiniteSets, TLC

MaxStarts == 2      \* start() calls made on the controller
MaxPending == 1     \* pause(), resume() and stop() calls awaiting their camera callback at one time
MaxClients == 2     \* client connections
MaxFrames == 2      \* frames the camera emits
MaxWriteFailures == 1   \* frame writes that fail

VARIABLES
    streamStatus,   \* this.streamStatus
    camera,         \* this.camera: "null" or "cam"
    serverApp,      \* this.server.app: "null", "own" (created by #initialize) or "ext" (registered)
    routes,         \* per server: the handlers registered for this.pathname, each named by the start() call that registered it
    starts,         \* the start() calls made so far: position and promise state of each ("refused": rejected by the state guard;
                    \* "rejected": rejected after a failure; "hung": never settled), and whether it called camera.start
    pending,        \* per operation pause/resume/stop: the camera callbacks not yet fired
    lastCall,       \* the last pause()/resume()/stop() call and its outcome: "invoked" the camera operation,
                    \* "refused" by the state guard, or "threw" on the absent camera handle (both reject the promise)
    progress,       \* camera callbacks fired so far follow start, pause, resume, stop up to this position; -1 once they deviate
    hw,             \* the camera module: "off", "on" or "paused"
    listeners,      \* the 'frame' listeners attached to the camera, in attach order, each named by its connection
    conns,          \* per connection: "none", "open", "closed" or "failed"
    subAt,          \* per connection: the number of frames emitted before its listener was attached
    log,            \* per connection: the frames its frameHandler was invoked with, and whether the writes succeeded
    emitted,        \* number of frames the camera has emitted
    lastFrame,      \* this.lastFrame: 0 is null, otherwise the frame
    config,         \* this.config
    mimeType,       \* this.mimeType: "null" or the MIME type
    lastSet         \* the last configuration setter called, its arguments and whether it returned ("ok") or threw

life == <<streamStatus, camera, serverApp, routes, starts, pending, lastCall, progress, hw, listeners, conns, subAt, log, emitted, lastFrame>>

cfg == <<config, mimeType, lastSet>>

vars == <<life, cfg>>

fanout == <<listeners, conns, subAt, log, emitted, lastFrame>>

Apps == {"own", "ext"}
Ops == {"pause", "resume", "stop"}
Clients == 1..MaxClients
InitFailures == {"none", "camera", "express", "listen"}
Scenario == <<"start", "pause", "resume", "stop">>

Call(pc, invoked) == [pc |-> pc, invoked |-> invoked]

SetPc(i, pc) == [starts EXCEPT ![i].pc = pc]

RemoveAllListeners(s, c) == <<>>

RemoveNothing(s, c) == s

RECURSIVE Remove(_, _)
Remove(s, c) ==
    IF s = <<>> THEN <<>>
    ELSE IF Head(s) = c THEN Tail(s)
    ELSE <<Head(s)>> \o Remove(Tail(s), c)

Range(s) == {s[i] : i \in DOMAIN s}

MicrotaskPending == \E i \in DOMAIN starts : starts[i].pc \in {"init_resolved", "init_rejected"}

Advance(op) ==
    IF progress >= 0 /\ progress < Len(Scenario) /\ Scenario[progress + 1] = op
    THEN progress + 1
    ELSE -1

Init ==
    /\ streamStatus = [started |-> FALSE, paused |-> FALSE, stopped |-> FALSE]
    /\ camera = "null"
    /\ serverApp = "null"
    /\ routes = [a \in Apps |-> <<>>]
    /\ starts = <<>>
    /\ pending = [o \in Ops |-> 0]
    /\ lastCall = [op |-> "none", outcome |-> "none"]
    /\ progress = 0
    /\ hw = "off"
    /\ listeners = <<>>
    /\ conns = [c \in Clients |-> "none"]
    /\ subAt = [c \in Clients |-> 0]
    /\ log = [c \in Clients |-> <<>>]
    /\ emitted = 0
    /\ lastFrame = 0
    /\ config = [width |-> 1280, height |-> 720, fps |-> 16, encoding |-> "JPEG", quality |-> 25]
    /\ mimeType = "null"
    /\ lastSet = [op |-> "none", arg |-> 0, v |-> 0, outcome |-> "none"]

\* The caller registers its server while setting the controller up, before the first start().
Register ==
    /\ starts = <<>>
    /\ serverApp' = "ext"
    /\ UNCHANGED <<streamStatus, camera, routes, starts, pending, lastCall, progress, hw, fanout, cfg>>

StartGuardMissing(status) == TRUE

StartGuard(status) == ~status.stopped

StartCall ==
    /\ Len(starts) < MaxStarts
    /\ \E fail \in InitFailures :
        IF ~StartGuard(streamStatus)
        THEN /\ starts' = Append(starts, Call("refused", FALSE))
             /\ UNCHANGED <<camera, serverApp>>
        ELSE IF fail = "camera"
        THEN /\ starts' = Append(starts, Call("init_rejected", FALSE))
             /\ UNCHANGED <<camera, serverApp>>
        ELSE IF serverApp # "null"
        THEN /\ fail = "none"
             /\ camera' = "cam"
             /\ starts' = Append(starts, Call("init_resolved", FALSE))
             /\ UNCHANGED serverApp
        ELSE /\ camera' = "cam"
             /\ serverApp' = IF fail = "express" THEN serverApp ELSE "own"
             /\ starts' = Append(starts, Call(IF fail = "none" THEN "init_wait" ELSE "init_rejected", FALSE))
    /\ UNCHANGED <<streamStatus, routes, pending, lastCall, progress, hw, fanout, cfg>>

ListenCb(i) ==
    /\ ~MicrotaskPending
    /\ starts[i].pc = "init_wait"
    /\ starts' = SetPc(i, "init_resolved")
    /\ UNCHANGED <<streamStatus, camera, serverApp, routes, pending, lastCall, progress, hw, fanout, cfg>>

StartContinue(i) ==
    /\ starts[i].pc = "init_resolved"
    /\ \E camFail \in BOOLEAN :
        IF camera = "null"
        THEN starts' = SetPc(i, "rejected")
        ELSE IF camFail
        THEN starts' = [starts EXCEPT ![i] = Call("rejected", TRUE)]
        ELSE starts' = [starts EXCEPT ![i] = Call("cam_wait", TRUE)]
    /\ UNCHANGED <<streamStatus, camera, serverApp, routes, pending, lastCall, progress, hw, fanout, cfg>>

StartReject(i) ==
    /\ starts[i].pc = "init_rejected"
    /\ starts' = SetPc(i, "rejected")
    /\ UNCHANGED <<streamStatus, camera, serverApp, routes, pending, lastCall, progress, hw, fanout, cfg>>

OnStarted(status) == [status EXCEPT !.started = TRUE]

Listen(i, routeFail) ==
    IF routeFail
    THEN /\ starts' = SetPc(i, "hung")
         /\ UNCHANGED routes
    ELSE /\ routes' = [routes EXCEPT ![serverApp] = Append(@, i)]
         /\ starts' = SetPc(i, "listen_wait")

StartCb(i) ==
    /\ ~MicrotaskPending
    /\ starts[i].pc = "cam_wait"
    /\ streamStatus' = OnStarted(streamStatus)
    /\ hw' = "on"
    /\ progress' = Advance("start")
    /\ \E routeFail \in BOOLEAN : Listen(i, routeFail)
    /\ UNCHANGED <<camera, serverApp, pending, lastCall, fanout, cfg>>

InFlight == pending["pause"] + pending["resume"] + pending["stop"]

Invoke(op, guard) ==
    /\ InFlight < MaxPending
    /\ IF ~guard
       THEN /\ lastCall' = [op |-> op, outcome |-> "refused"]
            /\ UNCHANGED pending
       ELSE IF camera = "null"
       THEN /\ lastCall' = [op |-> op, outcome |-> "threw"]
            /\ UNCHANGED pending
       ELSE /\ pending' = [pending EXCEPT ![op] = @ + 1]
            /\ lastCall' = [op |-> op, outcome |-> "invoked"]
    /\ UNCHANGED <<streamStatus, camera, serverApp, routes, starts, progress, hw, fanout, cfg>>

Completed(op) ==
    /\ ~MicrotaskPending
    /\ pending[op] > 0
    /\ pending' = [pending EXCEPT ![op] = @ - 1]
    /\ progress' = Advance(op)

PauseGuard(status) == status.started

PauseCall == Invoke("pause", PauseGuard(streamStatus))

OnPaused(status) == [status EXCEPT !.paused = TRUE]

PauseCb ==
    /\ Completed("pause")
    /\ streamStatus' = OnPaused(streamStatus)
    /\ hw' = IF hw = "on" THEN "paused" ELSE hw
    /\ UNCHANGED <<camera, serverApp, routes, starts, lastCall, fanout, cfg>>

ResumeGuard(status) == status.paused

ResumeCall == Invoke("resume", ResumeGuard(streamStatus))

OnResumedKeepsPaused(status) == status

OnResumed(status) == [status EXCEPT !.paused = FALSE]

ResumeCb ==
    /\ Completed("resume")
    /\ streamStatus' = OnResumed(streamStatus)
    /\ hw' = IF hw = "paused" THEN "on" ELSE hw
    /\ UNCHANGED <<camera, serverApp, routes, starts, lastCall, fanout, cfg>>

StopGuardMissing(status) == TRUE

StopGuard(status) == status.started

StopCall == Invoke("stop", StopGuard(streamStatus))

OnStopped(status) == [status EXCEPT !.stopped = TRUE, !.started = FALSE]

StopCb ==
    /\ Completed("stop")
    /\ streamStatus' = OnStopped(streamStatus)
    /\ camera' = "null"
    /\ hw' = "off"
    /\ UNCHANGED <<serverApp, routes, starts, lastCall, fanout, cfg>>

GetLastFrame(status, frame) ==
    IF ~status.started THEN [ok |-> FALSE, value |-> 0] ELSE [ok |-> TRUE, value |-> frame]

NextClient == Cardinality({c \in Clients : conns[c] # "none"}) + 1

Connect(c, app) ==
    /\ ~MicrotaskPending
    /\ c = NextClient
    /\ routes[app] # <<>>
    /\ IF camera = "null"
       THEN /\ conns' = [conns EXCEPT ![c] = "failed"]
            /\ UNCHANGED <<listeners, subAt, starts>>
       ELSE /\ conns' = [conns EXCEPT ![c] = "open"]
            /\ listeners' = Append(listeners, c)
            /\ subAt' = [subAt EXCEPT ![c] = emitted]
            /\ starts' = IF starts[Head(routes[app])].pc = "listen_wait"
                         THEN SetPc(Head(routes[app]), "resolved")
                         ELSE starts
    /\ UNCHANGED <<streamStatus, camera, serverApp, routes, pending, lastCall, progress, hw, log, emitted, lastFrame, cfg>>

Close(c) ==
    /\ ~MicrotaskPending
    /\ conns[c] = "open"
    /\ conns' = [conns EXCEPT ![c] = "closed"]
    /\ listeners' = Remove(listeners, c)
    /\ UNCHANGED <<streamStatus, camera, serverApp, routes, starts, pending, lastCall, progress, hw, subAt, log, emitted, lastFrame, cfg>>

FrameHandler(frameData, writeOk) == [frame |-> frameData, ok |-> writeOk]

RECURSIVE Failures(_)
Failures(S) ==
    IF S = {} THEN 0
    ELSE LET c == CHOOSE x \in S : TRUE
         IN Cardinality({k \in DOMAIN log[c] : ~log[c][k].ok}) + Failures(S \ {c})

\* The emitter calls the listeners in attach order, which is the order of the
\* connection numbers.  A write that throws is caught inside frameHandler, so
\* the listeners after it are still called.
EmitStopsAtThrow(c, failed) == c \in Range(listeners) /\ \A d \in failed : c <= d

Called(c, failed) == c \in Range(listeners)

LastFrameNever(frameData, attached, old) == old

LastFrameAfter(frameData, attached, old) == IF attached # <<>> THEN frameData ELSE old

Frame ==
    /\ ~MicrotaskPending
    /\ hw = "on"
    /\ emitted < MaxFrames
    /\ emitted' = emitted + 1
    /\ \E failed \in SUBSET Range(listeners) :
        /\ Failures(Clients) + Cardinality(failed) <= MaxWriteFailures
        /\ log' = [c \in Clients |->
                  IF Called(c, failed)
                  THEN Append(log[c], FrameHandler(emitted + 1, c \notin failed))
                  ELSE log[c]]
    /\ lastFrame' = LastFrameAfter(emitted + 1, listeners, lastFrame)
    /\ UNCHANGED <<streamStatus, camera, serverApp, routes, starts, pending, lastCall, progress, hw, listeners, conns, subAt, cfg>>

(***************************************************************************)
(* Configuration setters.  They touch only this.config and this.mimeType, *)
(* which no lifecycle operation writes, so they are explored on their own *)
(* in SpecConfig.  Numeric arguments are given in tenths (325 is 32.5) so *)
(* that parseInt has something to truncate.                                *)
(***************************************************************************)
WidthInputs == {315, 319, 320, 1000, 25920, 25925, 25930, 30000, 32800, 32810}
HeightInputs == {150, 159, 160, 6000, 19440, 19450, 20000, 24640, 24647, 24650}
FPSInputs == {0, 9, 10, 250, 900, 905, 910}
QualityInputs == {-10, 0, 10, 155, 1000, 1009, 1010}
Versions == {1, 2}
EncodingInputs == {"png", "PNG", " jpeg ", "Gif", "bmp", "TGA", "ppm", "WEBP", "jpg", ""}

ParseInt(tenths) == IF tenths >= 0 THEN tenths \div 10 ELSE -((-tenths) \div 10)

LowerCaseLetters == "abcdefghijklmnopqrstuvwxyz"
UpperCaseLetters == "ABCDEFGHIJKLMNOPQRSTUVWXYZ"

Translate(ch, from, to) ==
    IF \E i \in 1..Len(from) : SubSeq(from, i, i) = ch
    THEN LET i == CHOOSE j \in 1..Len(from) : SubSeq(from, j, j) = ch IN SubSeq(to, i, i)
    ELSE ch

RECURSIVE ToUpperCase(_)
ToUpperCase(str) ==
    IF Len(str) = 0 THEN ""
    ELSE Translate(SubSeq(str, 1, 1), LowerCaseLetters, UpperCaseLetters) \o ToUpperCase(SubSeq(str, 2, Len(str)))

RECURSIVE ToLowerCase(_)
ToLowerCase(str) ==
    IF Len(str) = 0 THEN ""
    ELSE Translate(SubSeq(str, 1, 1), UpperCaseLetters, LowerCaseLetters) \o ToLowerCase(SubSeq(str, 2, Len(str)))

RECURSIVE Trim(_)
Trim(str) ==
    IF Len(str) = 0 THEN ""
    ELSE IF SubSeq(str, 1, 1) = " " THEN Trim(SubSeq(str, 2, Len(str)))
    ELSE IF SubSeq(str, Len(str), Len(str)) = " " THEN Trim(SubSeq(str, 1, Len(str) - 1))
    ELSE str

supportedEncodingTypes == <<"JPEG", "GIF", "PNG", "PPM", "TGA", "BMP">>

\* setEncoding reads the bare identifier supportedEncodingTypes.  The list is a
\* static field of the class, reachable only as LiveStream.supportedEncodingTypes;
\* the module binds no variable of that name, so the read throws a ReferenceError.
BareListInScope == FALSE

Returned(op, arg, v) == [op |-> op, arg |-> arg, v |-> v, outcome |-> "ok"]
Threw(op, arg, v) == [op |-> op, arg |-> arg, v |-> v, outcome |-> "threw"]

WidthOutOfRangeExclusive(widthVal, v) == widthVal <= 32 \/ widthVal >= (IF v = 1 THEN 2592 ELSE 3280)

WidthOutOfRange(widthVal, v) == widthVal < 32 \/ widthVal > (IF v = 1 THEN 2592 ELSE 3280)

SetWidth(width, v) ==
    /\ LET widthVal == ParseInt(width) IN
        IF WidthOutOfRange(widthVal, v)
        THEN /\ lastSet' = Threw("setWidth", width, v)
             /\ UNCHANGED config
        ELSE /\ config' = [config EXCEPT !.width = widthVal]
             /\ lastSet' = Returned("setWidth", width, v)
    /\ UNCHANGED <<mimeType, life>>

HeightOutOfRange(heightVal, v) == heightVal < 16 \/ heightVal > (IF v = 1 THEN 1944 ELSE 2464)

SetHeight(height, v) ==
    /\ LET heightVal == ParseInt(height) IN
        IF HeightOutOfRange(heightVal, v)
        THEN /\ lastSet' = Threw("setHeight", height, v)
             /\ UNCHANGED config
        ELSE /\ config' = [config EXCEPT !.height = heightVal]
             /\ lastSet' = Returned("setHeight", height, v)
    /\ UNCHANGED <<mimeType, life>>

FPSOutOfRange(fpsVal) == fpsVal < 1 \/ fpsVal > 90

SetFPS(fps) ==
    /\ LET fpsVal == ParseInt(fps) IN
        IF FPSOutOfRange(fpsVal)
        THEN /\ lastSet' = Threw("setFPS", fps, 0)
             /\ UNCHANGED config
        ELSE /\ config' = [config EXCEPT !.fps = fpsVal]
             /\ lastSet' = Returned("setFPS", fps, 0)
    /\ UNCHANGED <<mimeType, life>>

QualityOutOfRange(qltyVal) == qltyVal < 1 \/ qltyVal > 100

SetQuality(quality) ==
    /\ LET qltyVal == ParseInt(quality) IN
        IF QualityOutOfRange(qltyVal)
        THEN /\ lastSet' = Threw("setQuality", quality, 0)
             /\ UNCHANGED config
        ELSE /\ config' = [config EXCEPT !.quality = qltyVal]
             /\ lastSet' = Returned("setQuality", quality, 0)
    /\ UNCHANGED <<mimeType, life>>

SetEncoding(encoding) ==
    /\ LET encVal == ToUpperCase(Trim(encoding)) IN
        IF ~BareListInScope \/ encVal \notin Range(supportedEncodingTypes)
        THEN /\ lastSet' = Threw("setEncoding", encoding, 0)
             /\ UNCHANGED <<config, mimeType>>
        ELSE /\ config' = [config EXCEPT !.encoding = encVal]
             /\ mimeType' = "image/" \o ToLowerCase(encVal)
             /\ lastSet' = Returned("setEncoding", encoding, 0)
    /\ UNCHANGED life

Base64Alphabet == "ABCDEFGHIJKLMNOPQRSTUVWXYZabcdefghijklmnopqrstuvwxyz0123456789+/"

\* A frame k stands for the one-byte buffer [k].
Base64(byte) ==
    SubSeq(Base64Alphabet, (byte \div 4) + 1, (byte \div 4) + 1)
        \o SubSeq(Base64Alphabet, ((byte % 4) * 16) + 1, ((byte % 4) * 16) + 1) \o "=="

GetSnapshot(frame, mime) ==
    IF frame # 0
    THEN [settled |-> "resolved", value |-> "data:" \o mime \o ";base64," \o Base64(frame)]
    ELSE [settled |-> "resolved", value |-> "null"]

Next ==
    \/ Register
    \/ StartCall
    \/ PauseCall
    \/ ResumeCall
    \/ StopCall
    \/ \E i \in DOMAIN starts : ListenCb(i)
    \/ \E i \in DOMAIN starts : StartContinue(i)
    \/ \E i \in DOMAIN starts : StartReject(i)
    \/ \E i \in DOMAIN starts : StartCb(i)
    \/ PauseCb
    \/ ResumeCb
    \/ StopCb
    \/ \E c \in Clients, app \in Apps : Connect(c, app)
    \/ \E c \in Clients : Close(c)
    \/ Frame

Spec == Init /\ [][Next]_vars

NextConfig ==
    \/ \E width \in WidthInputs, v \in Versions : SetWidth(width, v)
    \/ \E height \in HeightInputs, v \in Versions : SetHeight(height, v)
    \/ \E fps \in FPSInputs : SetFPS(fps)
    \/ \E quality \in QualityInputs : SetQuality(quality)
    \/ \E encoding \in EncodingInputs : SetEncoding(encoding)

SpecConfig == Init /\ [][NextConfig]_vars

Idle == ~streamStatus.started /\ ~streamStatus.paused /\ ~streamStatus.stopped
Started == streamStatus.started /\ ~streamStatus.paused /\ ~streamStatus.stopped
Paused == streamStatus.started /\ streamStatus.paused /\ ~streamStatus.stopped
Stopped == streamStatus.stopped

IsStartCall == Len(starts') = Len(starts) + 1
NewStart == starts'[Len(starts')]
CallbackFired(i) == starts[i].pc \in {"listen_wait", "resolved", "hung"}

\* C1: once a stop() has completed the stopped flag stays set, and every start()
\* called from then on is rejected by the guard, does not call camera.start and
\* leaves the status flags unchanged; a rejected start() stays rejected.
C1_StoppedIsTerminal ==
    [][ /\ streamStatus.stopped => streamStatus'.stopped
        /\ (streamStatus.stopped /\ IsStartCall) =>
              /\ NewStart = Call("refused", FALSE)
              /\ UNCHANGED <<streamStatus, camera, pending>>
        /\ \A i \in DOMAIN starts : starts[i].pc = "refused" => starts'[i] = starts[i] ]_vars

C1_Witness ==
    /\ Stopped
    /\ \E i, j \in DOMAIN starts :
        /\ i < j
        /\ starts[i].pc = "resolved"
        /\ starts[j] = Call("refused", FALSE)

\* C2: a start() called while the started flag is set (state started or paused)
\* is rejected by the guard and does not reach camera.start.
C2_StartOnlyFromIdle ==
    [][ (streamStatus.started /\ ~streamStatus.stopped /\ IsStartCall) =>
            /\ NewStart = Call("refused", FALSE)
            /\ UNCHANGED camera ]_vars

\* C3: on every server the route handler for the pathname is registered at most once.
C3_RouteRegisteredOnce == \A a \in Apps : Len(routes[a]) <= 1
Registered(i) == \E a \in Apps : i \in Range(routes[a])
StartFailed(i) == starts[i].pc \in {"init_rejected", "rejected", "hung"}

\* C4: once the camera's start callback has fired for a start() and its route is
\* registered, the started flag has been set (and is cleared only by a stop) and,
\* with no continuation left to run, the start() promise is resolved, whether or
\* not a client has connected.
C4_ResolvesOnCameraCallback ==
    \A i \in DOMAIN starts :
        (CallbackFired(i) /\ Registered(i) /\ ~MicrotaskPending) =>
            /\ streamStatus.started \/ streamStatus.stopped
            /\ starts[i].pc = "resolved"

\* C5: a start() that failed at any step (server creation, camera acquisition,
\* camera.start, route registration) is rejected, or about to be rejected by the
\* pending continuation, and when it is the only start() made the started flag is
\* still false.
C5_FailedStartRejects ==
    \A i \in DOMAIN starts :
        StartFailed(i) =>
            /\ starts[i].pc \in {"init_rejected", "rejected"}
            /\ (Len(starts) = 1 => ~streamStatus.started)
\* C6: pause(), resume() and stop() called in the idle state are rejected by
\* their guard, call no camera operation and leave the status flags, the camera
\* handle and lastFrame unchanged.
C6_IdleRejects ==
    [][ (Idle /\ (PauseCall \/ ResumeCall \/ StopCall)) =>
            /\ lastCall'.outcome = "refused"
            /\ UNCHANGED <<streamStatus, camera, lastFrame, pending, hw>> ]_vars

C6_Witness ==
    /\ Idle
    /\ camera = "cam"
    /\ lastCall = [op |-> "stop", outcome |-> "refused"]

\* C7: pause() called in the paused or the stopped state is rejected, calls no
\* camera operation and leaves the status flags unchanged.
C7_PauseOnlyFromStarted ==
    [][ ((Paused \/ Stopped) /\ PauseCall) =>
            /\ lastCall'.outcome \in {"refused", "threw"}
            /\ UNCHANGED <<streamStatus, pending>> ]_vars

CallbackOf(op) ==
    IF op = "start"
    THEN \E i \in DOMAIN starts : starts[i].pc = "cam_wait" /\ starts'[i].pc # "cam_wait"
    ELSE pending'[op] < pending[op]

FlagChangesOnCallback ==
    /\ (~streamStatus.started /\ streamStatus'.started) => CallbackOf("start")
    /\ (~streamStatus.paused /\ streamStatus'.paused) => CallbackOf("pause")
    /\ (streamStatus.paused /\ ~streamStatus'.paused) => CallbackOf("resume")
    /\ (streamStatus.started /\ ~streamStatus'.started) => CallbackOf("stop")
    /\ (streamStatus.stopped # streamStatus'.stopped) => CallbackOf("stop")

Expected ==
    << [started |-> TRUE, paused |-> FALSE, stopped |-> FALSE],
       [started |-> TRUE, paused |-> TRUE, stopped |-> FALSE],
       [started |-> TRUE, paused |-> FALSE, stopped |-> FALSE],
       [started |-> FALSE, paused |-> FALSE, stopped |-> TRUE] >>

\* C8: while the camera callbacks fired so far are those of start, pause, resume,
\* stop in this order, the state after each of them is started, paused, started,
\* stopped; and each status flag changes only in a step in which the camera
\* completion callback of the corresponding operation fires.
C8_SequenceFromIdle ==
    /\ [](progress \in 1..Len(Scenario) => streamStatus = Expected[progress])
    /\ [][FlagChangesOnCallback]_vars

C8_Witness ==
    /\ progress = Len(Scenario)
    /\ streamStatus = Expected[Len(Scenario)]
    /\ lastCall = [op |-> "stop", outcome |-> "invoked"]

\* C9: once a start() has succeeded, getLastFrame() does not fail and returns lastFrame.
C9_GetLastFrameAfterStart ==
    (\E i \in DOMAIN starts : starts[i].pc = "resolved") =>
        GetLastFrame(streamStatus, lastFrame) = [ok |-> TRUE, value |-> lastFrame]
Attempted(c) == [k \in DOMAIN log[c] |-> log[c][k].frame]
Received(c) == SelectSeq(log[c], LAMBDA e : e.ok)

\* C10: the frames handed to a connection's frameHandler are, in emission order,
\* exactly the frames emitted since its listener was attached, up to now for an
\* open connection and up to its disconnect for a closed one, and each of them
\* is written unless that write itself fails; a disconnect removes the listener
\* of that connection only and changes nothing for the other connections.
C10_EveryFrameToEveryClient ==
    /\ [](\A c \in Clients :
            /\ \A k \in DOMAIN log[c] : log[c][k].frame = subAt[c] + k
            /\ conns[c] = "open" =>
                  /\ Len(log[c]) = emitted - subAt[c]
                  /\ c \in Range(listeners))
    /\ [][\A c \in Clients :
            (conns[c] = "open" /\ conns'[c] = "closed") =>
                /\ Range(listeners') = Range(listeners) \ {c}
                /\ log' = log]_vars

C10_Witness ==
    /\ conns[1] = "closed" /\ conns[2] = "open"
    /\ Attempted(1) = <<1>>
    /\ Attempted(2) = <<1, 2>>
    /\ Received(2) = log[2]
\* C11: the attached frame listeners are exactly the open connections, one
\* listener each; a disconnect detaches the listener of that connection, and
\* nothing is written to a connection that is not open.
C11_ListenersAreOpenConnections ==
    /\ [](/\ Range(listeners) = {c \in Clients : conns[c] = "open"}
          /\ Len(listeners) = Cardinality(Range(listeners)))
    /\ [][\A c \in Clients :
            /\ (conns[c] = "open" /\ conns'[c] = "closed") => c \notin Range(listeners')
            /\ conns[c] # "open" => log'[c] = log[c]]_vars

C11_Witness ==
    /\ conns[1] = "closed" /\ conns[2] = "open"
    /\ listeners = <<2>>
    /\ Attempted(1) = <<1>>
    /\ emitted = 2
FailedWrites(c) == {k \in DOMAIN log[c] : ~log[c][k].ok}

\* C12: a frame event hands the frame to the frameHandler of every attached
\* connection, whether or not the write on another connection fails, and it
\* changes neither the status flags nor the attached listeners.
C12_WriteFailureContained ==
    [][emitted' = emitted + 1 =>
          /\ \A c \in Range(listeners) :
                /\ Len(log'[c]) = Len(log[c]) + 1
                /\ log'[c][Len(log'[c])].frame = emitted'
          /\ UNCHANGED <<streamStatus, listeners, conns, camera>>]_vars

C12_Witness ==
    /\ conns[1] = "open" /\ conns[2] = "open"
    /\ Len(log[1]) = 2 /\ Len(log[2]) = 2
    /\ FailedWrites(1) = {1}
    /\ FailedWrites(2) = {}
    /\ Started
\* C13: a connection on which a frame write has failed has no frame listener
\* attached any more.
C13_DetachedOnWriteFailure ==
    \A c \in Clients : FailedWrites(c) # {} => c \notin Range(listeners)

\* C14 as stated: after any frame event lastFrame is that frame, whatever the
\* number of connected clients.
C14_UpdatedOnEveryFrame == emitted > 0 => lastFrame = emitted

\* C14 as amended: a frame event sets lastFrame to the frame when at least one
\* client listener is attached, also when the writes fail, and leaves lastFrame
\* as it was when no client is connected; nothing else changes lastFrame.
C14_UpdatedWhenClientAttached ==
    [][ /\ emitted' = emitted + 1 =>
              lastFrame' = IF Len(listeners) >= 1 THEN emitted' ELSE lastFrame
        /\ emitted' = emitted => lastFrame' = lastFrame ]_vars

C14_Witness ==
    /\ emitted = 2
    /\ lastFrame = 1
    /\ conns[1] = "closed"
    /\ Attempted(1) = <<1>>
    /\ conns[2] = "none"
StartsWith(str, prefix) == Len(str) >= Len(prefix) /\ SubSeq(str, 1, Len(prefix)) = prefix

\* C15: getSnapshot() resolves; it resolves to null exactly when lastFrame is
\* unset; otherwise to a string that begins with data:image/<encoding>;base64,
\* for the lower-cased configured encoding.
C15_SnapshotDataURI ==
    LET snapshot == GetSnapshot(lastFrame, mimeType) IN
        /\ snapshot.settled = "resolved"
        /\ snapshot.value = "null" <=> lastFrame = 0
        /\ lastFrame # 0 =>
              StartsWith(snapshot.value, "data:image/" \o ToLowerCase(config.encoding) \o ";base64,")

DocumentedMin(op) ==
    IF op = "setWidth" THEN 32 ELSE IF op = "setHeight" THEN 16 ELSE 1

DocumentedMax(op, v) ==
    IF op = "setWidth" THEN (IF v = 1 THEN 2592 ELSE 3280)
    ELSE IF op = "setHeight" THEN (IF v = 1 THEN 1944 ELSE 2464)
    ELSE IF op = "setFPS" THEN 90 ELSE 100

Stored(op, value) ==
    IF op = "setWidth" THEN [config EXCEPT !.width = value]
    ELSE IF op = "setHeight" THEN [config EXCEPT !.height = value]
    ELSE IF op = "setFPS" THEN [config EXCEPT !.fps = value]
    ELSE [config EXCEPT !.quality = value]

\* C16: a call of setWidth, setHeight, setFPS or setQuality with an integer inside
\* the documented bounds returns and stores that integer in its own field only;
\* with an integer outside the bounds it throws and leaves config and mimeType
\* unchanged.
C16_NumericSetters ==
    [][ (lastSet'.op \in {"setWidth", "setHeight", "setFPS", "setQuality"} /\ lastSet'.arg % 10 = 0) =>
          LET op == lastSet'.op
              value == lastSet'.arg \div 10
          IN  IF DocumentedMin(op) <= value /\ value <= DocumentedMax(op, lastSet'.v)
              THEN /\ lastSet'.outcome = "ok"
                   /\ config' = Stored(op, value)
                   /\ mimeType' = mimeType
              ELSE /\ lastSet'.outcome = "threw"
                   /\ config' = config
                   /\ mimeType' = mimeType ]_vars

C16_Witness ==
    /\ lastSet = Threw("setWidth", 30000, 1)
    /\ config.width = 100
    /\ config.height = 1944
    /\ config.fps = 90
    /\ config.quality = 1

\* C17: setEncoding with a supported type in any letter case returns, stores the
\* upper-case type and sets mimeType to image/<lower-case type>; with an
\* unsupported type it throws and leaves the encoding and mimeType unchanged.
C17_SetEncoding ==
    [][ lastSet'.op = "setEncoding" =>
          /\ ToUpperCase(lastSet'.arg) \in Range(supportedEncodingTypes) =>
                /\ lastSet'.outcome = "ok"
                /\ config' = [config EXCEPT !.encoding = ToUpperCase(lastSet'.arg)]
                /\ mimeType' = "image/" \o ToLowerCase(lastSet'.arg)
          /\ ToUpperCase(Trim(lastSet'.arg)) \notin Range(supportedEncodingTypes) =>
                /\ lastSet'.outcome = "threw"
                /\ UNCHANGED <<config, mimeType>> ]_vars
\* C18: the started flag and the stopped flag are never both true.
C18_StartedExcludesStopped == ~(streamStatus.started /\ streamStatus.stopped)

\* C19: the status flags always encode idle, started, paused or stopped.
C19_FlagsEncodeAState ==
    streamStatus \in
        { [started |-> FALSE, paused |-> FALSE, stopped |-> FALSE],
          [started |-> TRUE, paused |-> FALSE, stopped |-> FALSE],
          [started |-> TRUE, paused |-> TRUE, stopped |-> FALSE],
          [started |-> FALSE, paused |-> FALSE, stopped |-> TRUE] }

\* C20: no pause(), resume() or stop() that passed its guard, and no client
\* connection that reached the route handler, found the camera handle absent.
C20_CameraPresentWhenUsed ==
    /\ lastCall.outcome # "threw"
    /\ \A c \in Clients : conns[c] # "failed"
====
